---- MODULE Spec2Model ----
(***************************************************************************)
(* keystoneauth1/identity/v3/oidc.py: the OpenID Connect plugins           *)
(* OidcPassword and OidcAuthorizationCode.  Each get_unscoped_auth_ref     *)
(* posts a grant-specific payload to the access token endpoint, reads the  *)
(* token out of the JSON reply under self.access_token_type, posts it as   *)
(* an "Authorization: Bearer" header to the federated token URL and hands  *)
(* the reply to access.create.                                             *)
(*                                                                         *)
(* Callers are threads; each runs get_unscoped_auth_ref on one of the two  *)
(* plugin instances.  The session, the federation base class and           *)
(* access.create live outside oidc.py and are modelled from their          *)
(* contracts.                                                              *)
(***************************************************************************)
EXTENDS Integers, Sequences, FiniteSets, TLC

VARIABLES
    args,       \* the arguments each plugin was constructed with
    inst,       \* the two plugin objects: their attributes
    pc,         \* where each caller is: idle, post1, post2, done, failed
    target,     \* the plugin each caller's current (or last) call runs on
    frame,      \* the locals of each caller's running get_unscoped_auth_ref
    wire,       \* the requests each caller's current call handed to session.post
    delivered,  \* what the network did with them, in order
    exc,        \* the exception the call raised to its caller
    result,     \* the value the call returned to its caller
    adapted,    \* the responses the call handed to access.create
    started     \* calls started so far

vars == <<args, inst, pc, target, frame, wire, delivered, exc, result, adapted, started>>

\* ---------------------------------------------------------------- bounds

\* Invocations of get_unscoped_auth_ref started in one run, all callers together.
MaxCalls == 2

\* The threads that call get_unscoped_auth_ref: two, so that any two calls can
\* overlap or follow one another.
Callers == {"t1", "t2"}

\* ---------------------------------------------------------------- values

\* A keyword argument the caller did not pass.
Absent == "<absent>"

\* Python None (also what JSON null decodes to).
None == "<None>"

\* As IsStr, had the header been built with 'Bearer %s' % access_token: any
\* value formats, None as well.
IsStr_Any(v) == TRUE

IsStr(v) == v # None

\* ------------------------------------------------------- construction

\* federation.FederationBaseAuth.__init__, reached through super().__init__.
FederationBaseAuth_init(auth_url, identity_provider, protocol) ==
    [auth_url |-> auth_url, identity_provider |-> identity_provider,
     protocol |-> protocol]

\* _OidcBase.__init__: the five shared attributes on top of the federation ones.
_OidcBase_init(a) ==
    LET base == FederationBaseAuth_init(a.auth_url, a.identity_provider, a.protocol)
    IN [auth_url |-> base.auth_url,
        identity_provider |-> base.identity_provider,
        protocol |-> base.protocol,
        client_id |-> a.client_id,
        client_secret |-> a.client_secret,
        access_token_endpoint |-> a.access_token_endpoint,
        grant_type |-> a.grant_type,
        access_token_type |-> a.access_token_type]

\* A keyword argument's value: the default when the caller left it out.
Keyword(given, default) == IF given = Absent THEN default ELSE given

\* OidcPassword.__init__(auth_url, identity_provider, protocol, client_id,
\*   client_secret, access_token_endpoint, grant_type='password',
\*   access_token_type='access_token', username=None, password=None,
\*   scope='profile')
OidcPassword_init(a) ==
    LET b == _OidcBase_init(
                 [auth_url |-> a.auth_url,
                  identity_provider |-> a.identity_provider,
                  protocol |-> a.protocol,
                  client_id |-> a.client_id,
                  client_secret |-> a.client_secret,
                  access_token_endpoint |-> a.access_token_endpoint,
                  grant_type |-> Keyword(a.grant_type, "password"),
                  access_token_type |-> Keyword(a.access_token_type, "access_token")])
    IN [class |-> "OidcPassword",
        auth_url |-> b.auth_url,
        identity_provider |-> b.identity_provider,
        protocol |-> b.protocol,
        client_id |-> b.client_id,
        client_secret |-> b.client_secret,
        access_token_endpoint |-> b.access_token_endpoint,
        grant_type |-> b.grant_type,
        access_token_type |-> b.access_token_type,
        username |-> Keyword(a.username, None),
        password |-> Keyword(a.password, None),
        scope |-> Keyword(a.scope, "profile")]

\* OidcAuthorizationCode.__init__(..., grant_type='authorization_code',
\*   access_token_type='access_token', redirect_uri=None, code=None)
OidcAuthorizationCode_init(a) ==
    LET b == _OidcBase_init(
                 [auth_url |-> a.auth_url,
                  identity_provider |-> a.identity_provider,
                  protocol |-> a.protocol,
                  client_id |-> a.client_id,
                  client_secret |-> a.client_secret,
                  access_token_endpoint |-> a.access_token_endpoint,
                  grant_type |-> Keyword(a.grant_type, "authorization_code"),
                  access_token_type |-> Keyword(a.access_token_type, "access_token")])
    IN [class |-> "OidcAuthorizationCode",
        auth_url |-> b.auth_url,
        identity_provider |-> b.identity_provider,
        protocol |-> b.protocol,
        client_id |-> b.client_id,
        client_secret |-> b.client_secret,
        access_token_endpoint |-> b.access_token_endpoint,
        grant_type |-> b.grant_type,
        access_token_type |-> b.access_token_type,
        redirect_uri |-> Keyword(a.redirect_uri, None),
        code |-> Keyword(a.code, None)]

\* The arguments callers construct the plugins with; Absent leaves a keyword out.
GrantTypeArgs == {Absent, "password", "authorization_code", "refresh_token"}

AccessTokenTypeArgs == {Absent, "id_token"}

PasswordArgs ==
    [auth_url : {"https://keystone:5000/v3"},
     identity_provider : {"idp"},
     protocol : {"oidc"},
     client_id : {"client-pw"},
     client_secret : {"s3cr3t-pw"},
     access_token_endpoint : {"https://op/token"},
     grant_type : GrantTypeArgs,
     access_token_type : AccessTokenTypeArgs,
     username : {Absent, "alice"},
     password : {Absent, "secret"},
     scope : {Absent, "email"}]

AuthorizationCodeArgs ==
    [auth_url : {"https://keystone:5000/v3"},
     identity_provider : {"idp"},
     protocol : {"oidc"},
     client_id : {"client-ac"},
     client_secret : {"s3cr3t-ac"},
     access_token_endpoint : {"https://op/token"},
     grant_type : GrantTypeArgs,
     access_token_type : AccessTokenTypeArgs,
     redirect_uri : {Absent, "https://app/cb"},
     code : {Absent, "C1"}]

\* The same, with the user's credentials fixed: alice/secret and the default
\* scope; code C1 redeemed at https://app/cb.
PasswordArgsAlice ==
    {a \in PasswordArgs :
        a.username = "alice" /\ a.password = "secret" /\ a.scope = Absent}

AuthorizationCodeArgsC1 ==
    {a \in AuthorizationCodeArgs : a.redirect_uri = "https://app/cb" /\ a.code = "C1"}

\* Arguments nothing documents: a grant type and a token type outside the valid
\* values of the docstring.
UncheckedGrantTypeArgs == GrantTypeArgs \cup {"implicit"}

UncheckedAccessTokenTypeArgs == AccessTokenTypeArgs \cup {"bearer"}

PasswordArgsUnchecked ==
    {[a EXCEPT !.grant_type = g, !.access_token_type = k] :
        a \in PasswordArgs, g \in UncheckedGrantTypeArgs, k \in UncheckedAccessTokenTypeArgs}

AuthorizationCodeArgsUnchecked ==
    {[a EXCEPT !.grant_type = g, !.access_token_type = k] :
        a \in AuthorizationCodeArgs, g \in UncheckedGrantTypeArgs,
        k \in UncheckedAccessTokenTypeArgs}

\* One instance of each plugin class.
Instances == {"OidcPassword", "OidcAuthorizationCode"}

\* FederationBaseAuth.federated_token_url, derived from auth_url,
\* identity_provider and protocol.
federated_token_url(self) ==
    self.auth_url \o "/OS-FEDERATION/identity_providers/" \o self.identity_provider
        \o "/protocols/" \o self.protocol \o "/auth"

\* ------------------------------------------------------------ session

\* An argument of session.post that the call site does not pass.
NotGiven == <<>>

NoResponse == [status |-> 0, json |-> <<>>]

NoExc == [type |-> "none", status |-> 0]

Is2xx(status) == status \in 200..299

\* What the network does with one request: the connection fails, or an HTTP
\* reply with a status and a decoded JSON body comes back.
TransportFailure == [kind |-> "transport", status |-> 0, json |-> <<>>]

HttpReply(status, json) == [kind |-> "http", status |-> status, json |-> json]

\* JSON bodies of the provider's token endpoint: any subset of the two token
\* keys; a token may be the empty string, an id_token may be null.
AccessTokenValues == {"AT1", "AT2", ""}

IdTokenValues == {"ID1", None}

TokenBodies ==
    {<<>>}
    \cup {[access_token |-> a] : a \in AccessTokenValues}
    \cup {[id_token |-> i] : i \in IdTokenValues}
    \cup {[access_token |-> a, id_token |-> i] : a \in AccessTokenValues, i \in IdTokenValues}

ErrorStatuses == {401, 500}

TokenEndpointOutcomes ==
    {TransportFailure}
    \cup {HttpReply(s, <<>>) : s \in ErrorStatuses}
    \cup {HttpReply(200, b) : b \in TokenBodies}

\* Keystone's replies on the federated token URL.
FederatedBodies == {[token |-> "T1"], [token |-> "T2"]}

FederatedOutcomes ==
    {TransportFailure}
    \cup {HttpReply(s, <<>>) : s \in ErrorStatuses}
    \cup {HttpReply(201, b) : b \in FederatedBodies}

\* session.post as oidc.py relies on it: it raises on a failed connection and on
\* a non-2xx status, and otherwise returns the response.
session_post(outcome) ==
    IF outcome.kind = "transport"
    THEN [raised |-> TRUE, exc |-> [type |-> "TransportError", status |-> 0],
          response |-> NoResponse]
    ELSE IF ~Is2xx(outcome.status)
    THEN [raised |-> TRUE,
          exc |-> [type |-> "TokenEndpointError", status |-> outcome.status],
          response |-> NoResponse]
    ELSE [raised |-> FALSE, exc |-> NoExc,
          response |-> [status |-> outcome.status, json |-> outcome.json]]

\* access.create(resp=response): the token data built from the response body.
access_create(resp) == [kind |-> "AccessInfoV3", body |-> resp.json]

NoResult == [kind |-> "none", body |-> <<>>]

\* ------------------------------------------------- the two network steps

\* As _get_access_token, had authenticated=False been left out: the session
\* treats the request as one to the identity service and attaches its token.
_get_access_token_Authenticated(self, client_auth, payload) ==
    [method |-> "POST",
     url |-> self.access_token_endpoint,
     requests_auth |-> client_auth,
     data |-> payload,
     headers |-> NotGiven,
     authenticated |-> TRUE]

\* _OidcBase._get_access_token: session.post(self.access_token_endpoint,
\*   requests_auth=client_auth, data=payload, authenticated=False)
_get_access_token(self, client_auth, payload) ==
    [method |-> "POST",
     url |-> self.access_token_endpoint,
     requests_auth |-> client_auth,
     data |-> payload,
     headers |-> NotGiven,
     authenticated |-> FALSE]

\* headers = {'Authorization': 'Bearer ' + access_token}
BearerHeaders(access_token) == [Authorization |-> "Bearer " \o access_token]

\* As _get_keystone_token, had it passed the client credentials along as the
\* first post does.
_get_keystone_token_WithClientAuth(self, access_token) ==
    [method |-> "POST",
     url |-> federated_token_url(self),
     requests_auth |-> <<self.client_id, self.client_secret>>,
     data |-> NotGiven,
     headers |-> BearerHeaders(access_token),
     authenticated |-> FALSE]

\* _OidcBase._get_keystone_token: session.post(self.federated_token_url,
\*   headers=headers, authenticated=False)
_get_keystone_token(self, access_token) ==
    [method |-> "POST",
     url |-> federated_token_url(self),
     requests_auth |-> NotGiven,
     data |-> NotGiven,
     headers |-> BearerHeaders(access_token),
     authenticated |-> FALSE]

\* ------------------------------------------------ get_unscoped_auth_ref

\* client_auth = (self.client_id, self.client_secret)
ClientAuth(self) == <<self.client_id, self.client_secret>>

\* As PasswordPayload, had the grant type been written out instead of read
\* from self.grant_type.
PasswordPayload_Literal(self) ==
    [grant_type |-> "password",
     username |-> self.username,
     password |-> self.password,
     scope |-> self.scope]

\* As PasswordPayload, had the client id been put into the form as well.
PasswordPayload_ClientId(self) ==
    [grant_type |-> self.grant_type,
     username |-> self.username,
     password |-> self.password,
     scope |-> self.scope,
     client_id |-> self.client_id]

\* OidcPassword: payload = {'grant_type': self.grant_type,
\*   'username': self.username, 'password': self.password, 'scope': self.scope}
PasswordPayload(self) ==
    [grant_type |-> self.grant_type,
     username |-> self.username,
     password |-> self.password,
     scope |-> self.scope]

\* As AuthorizationCodePayload, had the grant type been written out instead of
\* read from self.grant_type.
AuthorizationCodePayload_Literal(self) ==
    [grant_type |-> "authorization_code",
     redirect_uri |-> self.redirect_uri,
     code |-> self.code]

\* OidcAuthorizationCode: payload = {'grant_type': self.grant_type,
\*   'redirect_uri': self.redirect_uri, 'code': self.code}
AuthorizationCodePayload(self) ==
    [grant_type |-> self.grant_type,
     redirect_uri |-> self.redirect_uri,
     code |-> self.code]

Unbound == "<unbound>"

\* The locals of one running get_unscoped_auth_ref.
NoFrame ==
    [self |-> Unbound, client_auth |-> <<>>, payload |-> <<>>,
     response |-> NoResponse, access_token |-> Unbound]

\* Exceptions raised inside get_unscoped_auth_ref itself.
KeyError == [type |-> "KeyError", status |-> 0]

TypeError == [type |-> "TypeError", status |-> 0]

\* An exception leaves get_unscoped_auth_ref: nothing in it catches, so the
\* frame is gone and the caller sees the exception.
Raise(t, e) ==
    /\ pc' = [pc EXCEPT ![t] = "failed"]
    /\ exc' = [exc EXCEPT ![t] = e]
    /\ frame' = [frame EXCEPT ![t] = NoFrame]
    /\ UNCHANGED <<wire, result, adapted>>

\* As Rebind, had the second response been bound to another name: response
\* still names the token endpoint's response.
Rebind_Stale(response, auth_response) == response

\* response = self._get_keystone_token(...): the name response is rebound to
\* the federated endpoint's response before access.create reads it.
Rebind(response, auth_response) == auth_response

\* return access.create(resp=response)
Return(t, auth_response) ==
    LET response == Rebind(frame[t].response, auth_response)
    IN /\ adapted' = [adapted EXCEPT ![t] = Append(@, response)]
       /\ result' = [result EXCEPT ![t] = access_create(response)]
       /\ pc' = [pc EXCEPT ![t] = "done"]
       /\ frame' = [frame EXCEPT ![t] = NoFrame]
       /\ UNCHANGED <<wire, exc>>

\* As RaiseFromAccessToken, had the post been tried a second time before giving up.
RaiseFromAccessToken_Retry(t, e) ==
    IF Len(wire[t]) < 2
    THEN /\ wire' = [wire EXCEPT ![t] = Append(@, wire[t][1])]
         /\ UNCHANGED <<pc, frame, exc, result, adapted>>
    ELSE Raise(t, e)

\* As RaiseFromAccessToken, had the call been wrapped in a try/except that
\* raises a generic failure in place of what the session raised.
RaiseFromAccessToken_Wrapped(t, e) ==
    Raise(t, [type |-> "AuthorizationFailure", status |-> 0])

\* response = self._get_access_token(session, client_auth, payload) raised.
RaiseFromAccessToken(t, e) == Raise(t, e)

\* As RaiseFromKeystoneToken, had the exception been swallowed: the method goes
\* on to access.create with the response it still holds.
RaiseFromKeystoneToken_Swallowed(t, e) == Return(t, frame[t].response)

\* response = self._get_keystone_token(session, access_token) raised.
RaiseFromKeystoneToken(t, e) == Raise(t, e)

\* d[key] on a decoded JSON object: the value, or KeyError.
Subscript(d, key) ==
    IF key \in DOMAIN d
    THEN [raised |-> FALSE, exc |-> NoExc, value |-> d[key]]
    ELSE [raised |-> TRUE, exc |-> KeyError, value |-> Unbound]

\* As AccessTokenOf, had the key been written out: response.json()['access_token'].
AccessTokenOf_Literal(self, response) == Subscript(response.json, "access_token")

\* As AccessTokenOf, had the key followed the grant type: the id_token for the
\* authorization-code grant, the access_token for the others.
AccessTokenOf_ByGrant(self, response) ==
    Subscript(response.json,
              IF self.grant_type = "authorization_code" THEN "id_token" ELSE "access_token")

\* As AccessTokenOf, had it been response.json().get(self.access_token_type):
\* a missing key gives None instead of raising.
AccessTokenOf_Get(self, response) ==
    IF self.access_token_type \in DOMAIN response.json
    THEN Subscript(response.json, self.access_token_type)
    ELSE [raised |-> FALSE, exc |-> NoExc, value |-> None]

\* As AccessTokenOf, had the plugin kept the token of a call that returned on
\* self and read it back in later calls instead of the response in hand.
AccessTokenOf_Cached(self, response) ==
    LET returned == {u \in Callers : target[u] = self.class /\ pc[u] = "done"}
        u == CHOOSE u \in returned : TRUE
    IN IF returned = {}
       THEN Subscript(response.json, self.access_token_type)
       ELSE [raised |-> FALSE, exc |-> NoExc,
             value |-> delivered[u][1].json[self.access_token_type]]

\* As AccessTokenOf, had the token been passed through an attribute of self:
\* a call running at the same time on the same plugin has overwritten it.
AccessTokenOf_Shared(self, response) ==
    LET running == {u \in Callers :
                       frame[u].self = self.class /\ frame[u].access_token # Unbound}
        u == CHOOSE u \in running : TRUE
    IN IF running = {}
       THEN Subscript(response.json, self.access_token_type)
       ELSE [raised |-> FALSE, exc |-> NoExc, value |-> frame[u].access_token]

\* access_token = response.json()[self.access_token_type]
AccessTokenOf(self, response) == Subscript(response.json, self.access_token_type)

\* As AttributesAfterCall, had the method written the grant type of its class
\* back to self.
AttributesAfterCall_GrantTypeReset(self) ==
    [self EXCEPT !.grant_type =
        IF self.class = "OidcPassword" THEN "password" ELSE "authorization_code"]

\* As AttributesAfterCall, had OidcAuthorizationCode dropped its code once the
\* payload holding it was built.
AttributesAfterCall_CodeConsumed(self) ==
    IF self.class = "OidcAuthorizationCode" THEN [self EXCEPT !.code = None] ELSE self

\* The attributes of self once get_unscoped_auth_ref has run: the method reads
\* self.client_id, self.client_secret, self.grant_type and the rest, and assigns
\* to none of them.
AttributesAfterCall(self) == self

\* The first lines of either get_unscoped_auth_ref, up to the blocking post of
\* _get_access_token.
Enter(t, i, client_auth, payload) ==
    /\ pc[t] \in {"idle", "done", "failed"}
    /\ started < MaxCalls
    /\ started' = started + 1
    /\ pc' = [pc EXCEPT ![t] = "post1"]
    /\ target' = [target EXCEPT ![t] = i]
    /\ frame' = [frame EXCEPT ![t] =
                    [self |-> i, client_auth |-> client_auth, payload |-> payload,
                     response |-> NoResponse, access_token |-> Unbound]]
    /\ wire' = [wire EXCEPT ![t] = <<_get_access_token(inst[i], client_auth, payload)>>]
    /\ delivered' = [delivered EXCEPT ![t] = <<>>]
    /\ exc' = [exc EXCEPT ![t] = NoExc]
    /\ result' = [result EXCEPT ![t] = NoResult]
    /\ adapted' = [adapted EXCEPT ![t] = <<>>]
    /\ inst' = [inst EXCEPT ![i] = AttributesAfterCall(inst[i])]
    /\ UNCHANGED args

\* As OidcPassword_get_unscoped_auth_ref, had the method checked its
\* configuration first: without a username and a password, or with a grant type
\* or token type outside the documented values, it raises before any request.
OidcPassword_get_unscoped_auth_ref_Validated(t) ==
    LET self == inst["OidcPassword"]
        valid == /\ self.username # None
                 /\ self.password # None
                 /\ self.grant_type \in {"password", "authorization_code", "refresh_token"}
                 /\ self.access_token_type \in {"access_token", "id_token"}
    IN IF valid
       THEN Enter(t, "OidcPassword", ClientAuth(self), PasswordPayload(self))
       ELSE /\ pc[t] \in {"idle", "done", "failed"}
            /\ started < MaxCalls
            /\ started' = started + 1
            /\ pc' = [pc EXCEPT ![t] = "failed"]
            /\ target' = [target EXCEPT ![t] = "OidcPassword"]
            /\ frame' = [frame EXCEPT ![t] = NoFrame]
            /\ wire' = [wire EXCEPT ![t] = <<>>]
            /\ delivered' = [delivered EXCEPT ![t] = <<>>]
            /\ exc' = [exc EXCEPT ![t] = [type |-> "ValueError", status |-> 0]]
            /\ result' = [result EXCEPT ![t] = NoResult]
            /\ adapted' = [adapted EXCEPT ![t] = <<>>]
            /\ UNCHANGED <<args, inst>>

\* OidcPassword.get_unscoped_auth_ref, entered by caller t.
OidcPassword_get_unscoped_auth_ref(t) ==
    LET self == inst["OidcPassword"]
    IN Enter(t, "OidcPassword", ClientAuth(self), PasswordPayload(self))

\* OidcAuthorizationCode.get_unscoped_auth_ref, entered by caller t.
OidcAuthorizationCode_get_unscoped_auth_ref(t) ==
    LET self == inst["OidcAuthorizationCode"]
    IN Enter(t, "OidcAuthorizationCode", ClientAuth(self), AuthorizationCodePayload(self))

\* The token endpoint's response is in hand: read the token out of it and post
\* it to the federated token URL ('Bearer ' + access_token raises TypeError when
\* the value is not a string).
Redeem(t, response) ==
    LET self == inst[frame[t].self]
        tok == AccessTokenOf(self, response)
    IN IF tok.raised
       THEN Raise(t, tok.exc)
       ELSE IF ~IsStr(tok.value)
       THEN Raise(t, TypeError)
       ELSE /\ frame' = [frame EXCEPT ![t].response = response,
                                      ![t].access_token = tok.value]
            /\ wire' = [wire EXCEPT ![t] = Append(@, _get_keystone_token(self, tok.value))]
            /\ pc' = [pc EXCEPT ![t] = "post2"]
            /\ UNCHANGED <<exc, result, adapted>>

\* session.post of _get_access_token returns or raises in caller t.
TokenEndpointReturns(t, outcome) ==
    /\ pc[t] = "post1"
    /\ delivered' = [delivered EXCEPT ![t] = Append(@, outcome)]
    /\ LET r == session_post(outcome)
       IN IF r.raised THEN RaiseFromAccessToken(t, r.exc) ELSE Redeem(t, r.response)
    /\ UNCHANGED <<args, inst, target, started>>

\* session.post of _get_keystone_token returns or raises in caller t.
FederatedReturns(t, outcome) ==
    /\ pc[t] = "post2"
    /\ delivered' = [delivered EXCEPT ![t] = Append(@, outcome)]
    /\ LET r == session_post(outcome)
       IN IF r.raised THEN RaiseFromKeystoneToken(t, r.exc) ELSE Return(t, r.response)
    /\ UNCHANGED <<args, inst, target, started>>

\* ------------------------------------------------------- specification

\* Nobody has called anything yet.
Idle ==
    /\ pc = [t \in Callers |-> "idle"]
    /\ target = [t \in Callers |-> Unbound]
    /\ frame = [t \in Callers |-> NoFrame]
    /\ wire = [t \in Callers |-> <<>>]
    /\ delivered = [t \in Callers |-> <<>>]
    /\ exc = [t \in Callers |-> NoExc]
    /\ result = [t \in Callers |-> NoResult]
    /\ adapted = [t \in Callers |-> <<>>]
    /\ started = 0

\* Both plugins constructed, with the arguments a and b.
Constructed(a, b) ==
    /\ args = [OidcPassword |-> a, OidcAuthorizationCode |-> b]
    /\ inst = [OidcPassword |-> OidcPassword_init(a),
               OidcAuthorizationCode |-> OidcAuthorizationCode_init(b)]

Step(t) ==
    \/ OidcPassword_get_unscoped_auth_ref(t)
    \/ OidcAuthorizationCode_get_unscoped_auth_ref(t)
    \/ \E outcome \in TokenEndpointOutcomes : TokenEndpointReturns(t, outcome)
    \/ \E outcome \in FederatedOutcomes : FederatedReturns(t, outcome)

\* Two threads calling concurrently; the plugins are constructed with any
\* grant_type and access_token_type.
Init ==
    /\ \E a \in PasswordArgsAlice, b \in AuthorizationCodeArgsC1 : Constructed(a, b)
    /\ Idle

Next == \E t \in Callers : Step(t)

Spec == Init /\ [][Next]_vars

\* One thread calling, again and again; the plugins are constructed with any
\* arguments at all.
InitAnyArgs ==
    /\ \E a \in PasswordArgs, b \in AuthorizationCodeArgs : Constructed(a, b)
    /\ Idle

NextSingle == Step("t1")

SpecSingle == InitAnyArgs /\ [][NextSingle]_vars

\* One thread calling; the plugins are constructed with any arguments, valid or
\* not.
InitUnchecked ==
    /\ \E a \in PasswordArgsUnchecked, b \in AuthorizationCodeArgsUnchecked :
          Constructed(a, b)
    /\ Idle

SpecUnchecked == InitUnchecked /\ [][NextSingle]_vars

\* ------------------------------------------------------------- claims

\* The plugin object caller t's call runs on.
Self(t) == inst[target[t]]

\* The k-th request of caller t's call was answered with a 2xx response.
Succeeded(t, k) ==
    /\ k <= Len(delivered[t])
    /\ delivered[t][k].kind = "http"
    /\ Is2xx(delivered[t][k].status)

\* The k-th request of caller t's call failed: no connection, or a non-2xx status.
FailedAt(t, k) == k <= Len(delivered[t]) /\ ~Succeeded(t, k)

\* The token endpoint answered caller t's call with a 2xx response whose JSON
\* body has no key self.access_token_type.
MissingKey(t) ==
    /\ Succeeded(t, 1)
    /\ Self(t).access_token_type \notin DOMAIN delivered[t][1].json

\* C1: a call in which both requests succeed has issued exactly two requests,
\* the first to the access token endpoint and the second to the federated token
\* URL, and the second's Authorization header is "Bearer " followed by the value
\* of the first response's JSON body under self.access_token_type.
C1_TwoRequestsInOrder ==
    \A t \in Callers :
        (Succeeded(t, 1) /\ Succeeded(t, 2)) =>
            /\ Len(wire[t]) = 2
            /\ wire[t][1].url = Self(t).access_token_endpoint
            /\ wire[t][2].url = federated_token_url(Self(t))
            /\ Self(t).access_token_type \in DOMAIN delivered[t][1].json
            /\ wire[t][2].headers =
                   [Authorization |->
                       "Bearer " \o delivered[t][1].json[Self(t).access_token_type]]

\* A call on the password plugin configured for id_token has succeeded on a body
\* that holds both tokens.
C1_Witness ==
    \E t \in Callers :
        /\ pc[t] = "done"
        /\ target[t] = "OidcPassword"
        /\ Succeeded(t, 1) /\ Succeeded(t, 2)
        /\ Self(t).access_token_type = "id_token"
        /\ delivered[t][1].json = [access_token |-> "AT1", id_token |-> "ID1"]

\* C2: when the token endpoint answers with a non-2xx status, the call never
\* issues the request to the federated token URL and fails with a
\* TokenEndpointError carrying that status.
C2_NoRedemptionAfterErrorStatus ==
    \A t \in Callers :
        (/\ Len(delivered[t]) >= 1
         /\ delivered[t][1].kind = "http"
         /\ ~Is2xx(delivered[t][1].status)) =>
            /\ Len(wire[t]) = 1
            /\ pc[t] = "failed"
            /\ exc[t] = [type |-> "TokenEndpointError", status |-> delivered[t][1].status]
            /\ result[t] = NoResult

\* The token endpoint answered 401 to a call.
C2_Witness ==
    \E t \in Callers :
        /\ pc[t] = "failed"
        /\ delivered[t] = <<HttpReply(401, <<>>)>>
        /\ exc[t].status = 401

\* The spec's name for the KeyError that response.json()[self.access_token_type]
\* raises.
MalformedResponseError == KeyError

\* C3: when the token endpoint's JSON body lacks the key self.access_token_type,
\* the call fails with MalformedResponseError and no request to the federated
\* token URL is sent.
C3_MissingKeyFails ==
    \A t \in Callers :
        MissingKey(t) =>
            /\ pc[t] = "failed"
            /\ exc[t] = MalformedResponseError
            /\ Len(wire[t]) = 1
            /\ Len(delivered[t]) = 1

\* A plugin configured for id_token was answered with a body that holds only an
\* access_token.
C3_Witness ==
    \E t \in Callers :
        /\ MissingKey(t)
        /\ Self(t).access_token_type = "id_token"
        /\ delivered[t][1].json = [access_token |-> "AT1"]
        /\ pc[t] = "failed"

\* The form of the request caller t's call sent to the token endpoint.
Phase1Payload(t) == wire[t][1].data

\* C4: the password flow's payload has exactly the keys grant_type, username,
\* password and scope, the authorization-code flow's exactly grant_type,
\* redirect_uri and code; neither has a key of the other, client_id or
\* client_secret.
C4_PayloadKeys ==
    \A t \in Callers :
        Len(wire[t]) >= 1 =>
            /\ target[t] = "OidcPassword" =>
                  /\ DOMAIN Phase1Payload(t) = {"grant_type", "username", "password", "scope"}
                  /\ DOMAIN Phase1Payload(t) \cap {"redirect_uri", "code"} = {}
            /\ target[t] = "OidcAuthorizationCode" =>
                  /\ DOMAIN Phase1Payload(t) = {"grant_type", "redirect_uri", "code"}
                  /\ DOMAIN Phase1Payload(t) \cap {"username", "password", "scope"} = {}
            /\ DOMAIN Phase1Payload(t) \cap {"client_id", "client_secret"} = {}
            /\ frame[t].self # Unbound => frame[t].payload = Phase1Payload(t)

\* A password plugin constructed with another grant type and without a username
\* has sent its token request.
C4_Witness ==
    \E t \in Callers :
        /\ pc[t] = "post1"
        /\ target[t] = "OidcPassword"
        /\ args[target[t]].grant_type = "authorization_code"
        /\ args[target[t]].username = Absent
        /\ Len(wire[t]) = 1

\* C5 as claimed: the password flow's payload carries the literal grant type
\* "password" and the configured username, password and scope, whatever
\* grant_type the plugin was constructed with.
C5_GrantTypeIsLiteralPassword ==
    \A t \in Callers :
        (target[t] = "OidcPassword" /\ Len(wire[t]) >= 1) =>
            /\ Phase1Payload(t).grant_type = "password"
            /\ Phase1Payload(t).username = Self(t).username
            /\ Phase1Payload(t).password = Self(t).password
            /\ Phase1Payload(t).scope = Self(t).scope

\* C5 as amended: the password flow's payload carries the grant type the plugin
\* was constructed with ("password" when none was given), the username and
\* password it was constructed with (None when not given) and its scope
\* ("profile" when not given).
C5_PasswordPayloadFollowsConfig ==
    \A t \in Callers :
        (target[t] = "OidcPassword" /\ Len(wire[t]) >= 1) =>
            LET a == args["OidcPassword"]
                d == Phase1Payload(t)
            IN /\ d.grant_type = (IF a.grant_type = Absent THEN "password" ELSE a.grant_type)
               /\ d.username = (IF a.username = Absent THEN None ELSE a.username)
               /\ d.password = (IF a.password = Absent THEN None ELSE a.password)
               /\ d.scope = (IF a.scope = Absent THEN "profile" ELSE a.scope)
               /\ d.grant_type = Self(t).grant_type
               /\ d.username = Self(t).username
               /\ d.password = Self(t).password
               /\ d.scope = Self(t).scope

\* A password plugin constructed with grant_type "refresh_token" and no scope has
\* sent its token request.
C5_Witness ==
    \E t \in Callers :
        /\ target[t] = "OidcPassword"
        /\ Len(wire[t]) >= 1
        /\ args["OidcPassword"].grant_type = "refresh_token"
        /\ args["OidcPassword"].scope = Absent
        /\ Phase1Payload(t).grant_type = "refresh_token"
        /\ Phase1Payload(t).scope = "profile"

\* C6 as claimed: the authorization-code flow's payload is exactly grant_type
\* "authorization_code" with the configured redirect_uri and code, whatever
\* grant_type the plugin was constructed with.
C6_GrantTypeIsLiteralAuthorizationCode ==
    \A t \in Callers :
        (target[t] = "OidcAuthorizationCode" /\ Len(wire[t]) >= 1) =>
            Phase1Payload(t) =
                [grant_type |-> "authorization_code",
                 redirect_uri |-> Self(t).redirect_uri,
                 code |-> Self(t).code]

\* C6 as amended: the authorization-code flow's payload is exactly the grant
\* type the plugin was constructed with ("authorization_code" when none was
\* given) with the redirect_uri and code it was constructed with (None when not
\* given).
C6_AuthorizationCodePayloadFollowsConfig ==
    \A t \in Callers :
        (target[t] = "OidcAuthorizationCode" /\ Len(wire[t]) >= 1) =>
            LET a == args["OidcAuthorizationCode"]
            IN /\ Phase1Payload(t) =
                      [grant_type |->
                           IF a.grant_type = Absent THEN "authorization_code" ELSE a.grant_type,
                       redirect_uri |->
                           IF a.redirect_uri = Absent THEN None ELSE a.redirect_uri,
                       code |-> IF a.code = Absent THEN None ELSE a.code]
               /\ Phase1Payload(t).grant_type = Self(t).grant_type
               /\ Phase1Payload(t).redirect_uri = Self(t).redirect_uri
               /\ Phase1Payload(t).code = Self(t).code

\* An authorization-code plugin constructed with grant_type "password" has sent
\* code C1 and the redirect URI to the token endpoint.
C6_Witness ==
    \E t \in Callers :
        /\ target[t] = "OidcAuthorizationCode"
        /\ Len(wire[t]) >= 1
        /\ args["OidcAuthorizationCode"].grant_type = "password"
        /\ Phase1Payload(t) =
               [grant_type |-> "password", redirect_uri |-> "https://app/cb", code |-> "C1"]

\* Caller t's call has sent its request to the federated token URL.
Redeemed(t) == Len(wire[t]) = 2

\* The Authorization header of that request.
Bearer(t) == wire[t][2].headers.Authorization

\* C7: two calls that received the same token-endpoint body and have the same
\* access_token_type send the same bearer, whichever plugins and grant types
\* they run with; and with access_token_type "id_token" the bearer is the
\* body's id_token, not its access_token.
C7_BearerBySelectorOnly ==
    /\ \A t, u \in Callers :
          (/\ Redeemed(t) /\ Redeemed(u)
           /\ delivered[t][1].json = delivered[u][1].json
           /\ Self(t).access_token_type = Self(u).access_token_type) =>
              Bearer(t) = Bearer(u)
    /\ \A t \in Callers :
          (Redeemed(t) /\ Self(t).access_token_type = "id_token") =>
              LET body == delivered[t][1].json
              IN /\ "id_token" \in DOMAIN body
                 /\ Bearer(t) = "Bearer " \o body.id_token
                 /\ ("access_token" \in DOMAIN body /\ body.access_token # body.id_token) =>
                        Bearer(t) # "Bearer " \o body.access_token

\* Both plugins, constructed for id_token and with different grant types, have
\* redeemed the same body holding both tokens.
C7_Witness ==
    /\ target["t1"] = "OidcPassword"
    /\ target["t2"] = "OidcAuthorizationCode"
    /\ Redeemed("t1") /\ Redeemed("t2")
    /\ inst["OidcPassword"].grant_type = "refresh_token"
    /\ inst["OidcAuthorizationCode"].grant_type = "authorization_code"
    /\ inst["OidcPassword"].access_token_type = "id_token"
    /\ inst["OidcAuthorizationCode"].access_token_type = "id_token"
    /\ delivered["t1"][1].json = [access_token |-> "AT2", id_token |-> "ID1"]
    /\ delivered["t2"][1].json = [access_token |-> "AT2", id_token |-> "ID1"]

\* C8: a call in which a request fails or the token key is missing stops there:
\* it sends nothing after the reply that failed it, never invokes access.create
\* and ends in an exception without a result; a result is returned only when
\* both requests succeeded.
C8_FailFast ==
    \A t \in Callers :
        /\ (FailedAt(t, 1) \/ FailedAt(t, 2) \/ MissingKey(t)) =>
              /\ pc[t] = "failed"
              /\ exc[t] # NoExc
              /\ result[t] = NoResult
              /\ adapted[t] = <<>>
              /\ Len(wire[t]) = Len(delivered[t])
        /\ pc[t] = "failed" =>
              /\ exc[t] # NoExc
              /\ result[t] = NoResult
              /\ adapted[t] = <<>>
        /\ result[t] # NoResult =>
              /\ pc[t] = "done"
              /\ exc[t] = NoExc
              /\ Succeeded(t, 1)
              /\ Succeeded(t, 2)

\* The federated token URL answered 500 to a call whose token request had
\* succeeded.
C8_Witness ==
    \E t \in Callers :
        /\ Succeeded(t, 1)
        /\ FailedAt(t, 2)
        /\ delivered[t][2] = HttpReply(500, <<>>)
        /\ pc[t] = "failed"

\* The response object session.post returned for the k-th request of caller t.
ResponseTo(t, k) == [status |-> delivered[t][k].status, json |-> delivered[t][k].json]

\* C9: a call that returns has handed access.create exactly one response, the
\* federated token URL's of this call and not the token endpoint's, and returns
\* what access.create made of it; access.create is never invoked before that
\* response is in.
C9_ResultFromFederatedResponse ==
    \A t \in Callers :
        /\ pc[t] = "done" =>
              /\ Succeeded(t, 2)
              /\ adapted[t] = <<ResponseTo(t, 2)>>
              /\ adapted[t][1] # ResponseTo(t, 1)
              /\ result[t] = access_create(ResponseTo(t, 2))
        /\ Len(adapted[t]) <= 1
        /\ adapted[t] # <<>> => (Len(delivered[t]) = 2 /\ pc[t] = "done")

\* A call returned the token data of the federated reply T2.
C9_Witness ==
    \E t \in Callers :
        /\ pc[t] = "done"
        /\ delivered[t][2] = HttpReply(201, [token |-> "T2"])
        /\ result[t].body = [token |-> "T2"]

\* The requests of caller t's call that went to url.
RequestsTo(t, url) == {k \in 1..Len(wire[t]) : wire[t][k].url = url}

\* C10: one call sends at most one request to the access token endpoint and at
\* most one to the federated token URL; after a request that failed it sends
\* nothing more, and its caller sees that failure.
C10_NoRetry ==
    \A t \in Callers :
        target[t] # Unbound =>
            /\ Cardinality(RequestsTo(t, Self(t).access_token_endpoint)) <= 1
            /\ Cardinality(RequestsTo(t, federated_token_url(Self(t)))) <= 1
            /\ Len(wire[t]) <= 2
            /\ \A k \in 1..Len(delivered[t]) :
                  FailedAt(t, k) =>
                      /\ Len(wire[t]) = k
                      /\ Len(delivered[t]) = k
                      /\ pc[t] = "failed"
                      /\ exc[t].status = delivered[t][k].status
                      /\ exc[t].type =
                             IF delivered[t][k].kind = "transport"
                             THEN "TransportError"
                             ELSE "TokenEndpointError"

\* The connection to the federated token URL failed after the token request had
\* succeeded.
C10_Witness ==
    \E t \in Callers :
        /\ pc[t] = "failed"
        /\ Len(wire[t]) = 2
        /\ delivered[t][2] = TransportFailure
        /\ exc[t].type = "TransportError"

\* Caller t enters get_unscoped_auth_ref in this step.
Enters(t) == pc[t] # "post1" /\ pc'[t] = "post1"

\* Caller t's call sends its request to the federated token URL in this step.
Redeems(t) == pc[t] = "post1" /\ pc'[t] = "post2"

\* The value of the token endpoint's reply to caller t's call under the
\* access_token_type of the plugin it runs on.
OwnToken(t) == delivered[t][1].json[Self(t).access_token_type]

\* C11: no token is kept from one call to the next.  Every call, also one on a
\* plugin an earlier call has already got a token for, starts by sending its own
\* request to the access token endpoint; and the bearer a call sends is the
\* token of the reply to that request, not the token an earlier call on the
\* same plugin was given when the two differ.
C11_NoTokenCaching ==
    [][\A t \in Callers :
          /\ Enters(t) =>
                /\ Len(wire'[t]) = 1
                /\ wire'[t][1].url = inst[target'[t]].access_token_endpoint
                /\ delivered'[t] = <<>>
          /\ Redeems(t) =>
                /\ Len(delivered'[t]) = 1
                /\ Succeeded(t, 1)'
                /\ Self(t).access_token_type \in DOMAIN delivered'[t][1].json
                /\ Bearer(t)' = "Bearer " \o OwnToken(t)'
                /\ \A u \in Callers \ {t} :
                      (/\ target[u] = target[t]
                       /\ Redeemed(u)
                       /\ OwnToken(u) # OwnToken(t)') =>
                          Bearer(t)' # Bearer(u)]_vars

\* A call on the password plugin has returned with the token AT1, and another
\* call on the same plugin, given AT2, has sent AT2 on.
C11_Witness ==
    /\ target["t1"] = "OidcPassword" /\ target["t2"] = "OidcPassword"
    /\ pc["t1"] = "done"
    /\ OwnToken("t1") = "AT1"
    /\ pc["t2"] = "post2"
    /\ OwnToken("t2") = "AT2"
    /\ Bearer("t2") = "Bearer AT2"

\* Everything the model keeps for caller t's call.
CallState(t) ==
    <<pc[t], target[t], frame[t], wire[t], delivered[t], exc[t], result[t], adapted[t]>>

\* Caller t's call is in order: its first request went to the access token
\* endpoint, and its request to the federated token URL, if sent, was sent after
\* the token endpoint's 2xx reply to this call and carries this call's token.
InOrder(t) ==
    /\ Len(wire[t]) >= 1 => wire[t][1].url = Self(t).access_token_endpoint
    /\ Redeemed(t) =>
          /\ Succeeded(t, 1)
          /\ wire[t][2].url = federated_token_url(Self(t))
          /\ Self(t).access_token_type \in DOMAIN delivered[t][1].json
          /\ Bearer(t) = "Bearer " \o OwnToken(t)

\* C12: however two calls interleave, on different plugins or on the same one,
\* each sends its request to the access token endpoint first and its request to
\* the federated token URL only after its own reply, with the token of its own
\* reply as bearer and not the other call's; and no step of one call changes
\* anything of the other call or any attribute of a plugin.
C12_ConcurrentCallsIndependent ==
    /\ [](/\ \A t \in Callers : InOrder(t)
          /\ \A t, u \in Callers :
                (/\ t # u
                 /\ Redeemed(t) /\ Redeemed(u)
                 /\ OwnToken(t) # OwnToken(u)) =>
                    Bearer(t) # Bearer(u))
    /\ [][/\ \E t \in Callers : \A u \in Callers \ {t} : CallState(u)' = CallState(u)
          /\ inst' = inst]_vars

\* Two calls on the password plugin are both waiting for the federated token
\* URL, one having been given AT1 and the other AT2.
C12_Witness ==
    /\ target["t1"] = "OidcPassword" /\ target["t2"] = "OidcPassword"
    /\ pc["t1"] = "post2" /\ pc["t2"] = "post2"
    /\ OwnToken("t1") = "AT1" /\ Bearer("t1") = "Bearer AT1"
    /\ OwnToken("t2") = "AT2" /\ Bearer("t2") = "Bearer AT2"

\* C13: whatever calls have been made, and however they ended, every attribute
\* of either plugin (client_id, client_secret, access_token_endpoint,
\* grant_type, access_token_type, and username, password, scope or
\* redirect_uri, code) is what its constructor made of the arguments.
C13_ConfigurationUnchanged ==
    /\ inst["OidcPassword"] = OidcPassword_init(args["OidcPassword"])
    /\ inst["OidcAuthorizationCode"] =
           OidcAuthorizationCode_init(args["OidcAuthorizationCode"])
    /\ \A i \in Instances :
          /\ inst[i].client_id = args[i].client_id
          /\ inst[i].client_secret = args[i].client_secret
          /\ inst[i].access_token_endpoint = args[i].access_token_endpoint
          /\ args[i].grant_type # Absent => inst[i].grant_type = args[i].grant_type
          /\ args[i].access_token_type # Absent =>
                inst[i].access_token_type = args[i].access_token_type

\* A second call on the authorization-code plugin, constructed for the
\* refresh_token grant and id_token, has failed; the plugin still holds its
\* grant type, token type, redirect URI and code.
C13_Witness ==
    /\ started = 2
    /\ pc["t1"] = "failed"
    /\ target["t1"] = "OidcAuthorizationCode"
    /\ args["OidcAuthorizationCode"].grant_type = "refresh_token"
    /\ inst["OidcAuthorizationCode"].grant_type = "refresh_token"
    /\ inst["OidcAuthorizationCode"].access_token_type = "id_token"
    /\ inst["OidcAuthorizationCode"].redirect_uri = "https://app/cb"
    /\ inst["OidcAuthorizationCode"].code = "C1"

\* The payload get_unscoped_auth_ref of plugin object self builds.
PayloadOf(self) ==
    IF self.class = "OidcPassword" THEN PasswordPayload(self) ELSE AuthorizationCodePayload(self)

\* C14: the first request of every call, on either plugin, is a POST to the
\* access_token_endpoint the plugin was constructed with, not authenticated
\* against the identity service, with the pair (client_id, client_secret) the
\* plugin was constructed with as its credentials, no headers of its own and
\* the plugin's payload, as built, as its body.
C14_TokenRequest ==
    \A t \in Callers :
        Len(wire[t]) >= 1 =>
            /\ wire[t][1].method = "POST"
            /\ wire[t][1].url = args[target[t]].access_token_endpoint
            /\ wire[t][1].authenticated = FALSE
            /\ wire[t][1].requests_auth =
                   <<args[target[t]].client_id, args[target[t]].client_secret>>
            /\ wire[t][1].data = PayloadOf(Self(t))
            /\ wire[t][1].headers = NotGiven
            /\ pc[t] \in {"post1", "post2"} =>
                  /\ wire[t][1].data = frame[t].payload
                  /\ wire[t][1].requests_auth = frame[t].client_auth

\* A call on the authorization-code plugin is waiting for the token endpoint:
\* its request carries the plugin's client credentials and the code.
C14_Witness ==
    /\ pc["t1"] = "post1"
    /\ target["t1"] = "OidcAuthorizationCode"
    /\ wire["t1"][1].url = "https://op/token"
    /\ wire["t1"][1].requests_auth = <<"client-ac", "s3cr3t-ac">>
    /\ wire["t1"][1].data =
           [grant_type |-> "authorization_code", redirect_uri |-> "https://app/cb",
            code |-> "C1"]

\* The token endpoint answered caller t's call with a 2xx response whose JSON
\* body has the key self.access_token_type.
TokenDelivered(t) ==
    /\ Succeeded(t, 1)
    /\ Self(t).access_token_type \in DOMAIN delivered[t][1].json

\* C15 as stated: a request to the federated token URL always carries a
\* non-empty string as its token, and none is sent when the value read from the
\* token endpoint's reply is empty or not a string.
C15_BearerNonEmpty ==
    \A t \in Callers :
        /\ Redeemed(t) => (OwnToken(t) # None /\ OwnToken(t) # "")
        /\ (TokenDelivered(t) /\ (OwnToken(t) = None \/ OwnToken(t) = "")) =>
              Len(wire[t]) = 1

\* C15: a request to the federated token URL carries "Bearer " followed by the
\* string read from the token endpoint's reply, whatever that string is: an empty
\* string is sent on as "Bearer " with nothing after it.  Only a value that is
\* not a string stops the call before that request, with a TypeError.
C15_BearerIsExtractedString ==
    \A t \in Callers :
        /\ Redeemed(t) =>
              /\ TokenDelivered(t)
              /\ OwnToken(t) # None
              /\ Bearer(t) = "Bearer " \o OwnToken(t)
        /\ (TokenDelivered(t) /\ OwnToken(t) = "") =>
              /\ Redeemed(t)
              /\ Bearer(t) = "Bearer "
        /\ (TokenDelivered(t) /\ OwnToken(t) = None) =>
              /\ Len(wire[t]) = 1
              /\ pc[t] = "failed"
              /\ exc[t] = TypeError

\* The token endpoint gave a call an empty access_token, and the call has sent
\* it on.
C15_Witness ==
    \E t \in Callers :
        /\ TokenDelivered(t)
        /\ Self(t).access_token_type = "access_token"
        /\ delivered[t][1].json = [access_token |-> ""]
        /\ Redeemed(t)
        /\ wire[t][2].headers = [Authorization |-> "Bearer "]

\* What a keyword argument stands for in the plugin: None when it was left out.
OrNone(given) == IF given = Absent THEN None ELSE given

\* The token endpoint turned caller t's call down: a response with a non-2xx
\* status.
Rejected(t) ==
    /\ Len(delivered[t]) >= 1
    /\ delivered[t][1].kind = "http"
    /\ ~Is2xx(delivered[t][1].status)

\* C16 as stated, for the token type: a call on a plugin constructed with an
\* access_token_type outside the valid values that fails once the token
\* endpoint has answered fails with the TokenEndpointError of that answer.
C16_RejectedOnlyByTokenEndpointError ==
    \A t \in Callers :
        (/\ target[t] # Unbound
         /\ Self(t).access_token_type \notin {"access_token", "id_token"}
         /\ pc[t] = "failed"
         /\ Len(delivered[t]) = 1
         /\ delivered[t][1].kind = "http") =>
            exc[t].type = "TokenEndpointError"

\* C16: nothing is validated before the request goes out.  Whatever arguments
\* the plugins were constructed with, a caller can enter get_unscoped_auth_ref,
\* and a call that was entered has sent its request to the access token
\* endpoint with the grant type as given and None for every argument left out.
\* A call fails only once that request has an outcome: with TokenEndpointError
\* when the token endpoint turns it down, and with KeyError when a 2xx reply has
\* no key self.access_token_type, as with a token type the provider never uses.
C16_NoEagerValidation ==
    /\ (pc["t1"] \in {"idle", "done", "failed"} /\ started < MaxCalls) =>
          /\ ENABLED OidcPassword_get_unscoped_auth_ref("t1")
          /\ ENABLED OidcAuthorizationCode_get_unscoped_auth_ref("t1")
    /\ \A t \in Callers :
          target[t] # Unbound =>
              LET a == args[target[t]]
                  data == wire[t][1].data
              IN /\ Len(wire[t]) >= 1
                 /\ a.grant_type # Absent => data.grant_type = a.grant_type
                 /\ target[t] = "OidcPassword" =>
                       /\ data.username = OrNone(a.username)
                       /\ data.password = OrNone(a.password)
                 /\ target[t] = "OidcAuthorizationCode" =>
                       /\ data.redirect_uri = OrNone(a.redirect_uri)
                       /\ data.code = OrNone(a.code)
                 /\ pc[t] = "failed" => Len(delivered[t]) >= 1
                 /\ exc[t] # NoExc => Len(delivered[t]) >= 1
                 /\ Rejected(t) =>
                       /\ pc[t] = "failed"
                       /\ exc[t] = [type |-> "TokenEndpointError",
                                    status |-> delivered[t][1].status]
                 /\ MissingKey(t) =>
                       /\ pc[t] = "failed"
                       /\ exc[t] = KeyError
                       /\ Len(wire[t]) = 1

\* The password plugin was constructed without username and password, with the
\* grant type implicit and the token type bearer; its call went out with those
\* values, the token endpoint answered 200 with an access_token, and the call
\* failed on the missing key.
C16_Witness ==
    /\ args["OidcPassword"].username = Absent
    /\ args["OidcPassword"].password = Absent
    /\ args["OidcPassword"].grant_type = "implicit"
    /\ args["OidcPassword"].access_token_type = "bearer"
    /\ target["t1"] = "OidcPassword"
    /\ wire["t1"] =
           <<[method |-> "POST", url |-> "https://op/token",
              requests_auth |-> <<"client-pw", "s3cr3t-pw">>,
              data |-> [grant_type |-> "implicit", username |-> None,
                        password |-> None, scope |-> "profile"],
              headers |-> NotGiven, authenticated |-> FALSE]>>
    /\ delivered["t1"] = <<HttpReply(200, [access_token |-> "AT1"])>>
    /\ pc["t1"] = "failed"
    /\ exc["t1"] = KeyError

\* Caller u's current or last call ran on the authorization-code plugin and
\* has sent its request to the access token endpoint.
SentCode(u) == target[u] = "OidcAuthorizationCode" /\ Len(wire[u]) >= 1

\* C17: the authorization-code plugin does not remember that its code was used.
\* After a call on it has ended, returned or failed, another call can be
\* entered; and every call entered on it, whatever calls ran on it before,
\* sends its request to the access token endpoint with the same code as those,
\* and leaves the code on the plugin as it was.
C17_CodeSentAgain ==
    /\ [](\A t \in Callers :
             (/\ SentCode(t)
              /\ pc[t] \in {"done", "failed"}
              /\ started < MaxCalls) =>
                 ENABLED OidcAuthorizationCode_get_unscoped_auth_ref(t))
    /\ [][\A t \in Callers :
             (Enters(t) /\ target'[t] = "OidcAuthorizationCode") =>
                 /\ Len(wire'[t]) = 1
                 /\ wire'[t][1].url = inst["OidcAuthorizationCode"].access_token_endpoint
                 /\ inst'["OidcAuthorizationCode"].code = inst["OidcAuthorizationCode"].code
                 /\ \A u \in Callers :
                       SentCode(u) => wire'[t][1].data.code = wire[u][1].data.code]_vars

\* A call on the authorization-code plugin has returned, having sent the code
\* C1, and another call on the plugin has sent C1 to the access token endpoint
\* as well.
C17_Witness ==
    /\ SentCode("t1") /\ SentCode("t2")
    /\ pc["t1"] = "done"
    /\ wire["t1"][1].data.code = "C1"
    /\ pc["t2"] = "post1"
    /\ wire["t2"][1].data.code = "C1"
    /\ wire["t2"][1].url = "https://op/token"

\* C18: the request to the federated token URL is a POST that is not
\* authenticated against the identity service and carries one header,
\* Authorization, with "Bearer " and the token of the token endpoint's reply;
\* it has no credentials and no body.  The client credentials and the payload
\* with the user's name and password, or the redirect URI and code, go with the
\* first request alone, the one to the access token endpoint.
C18_CredentialsStayWithTokenEndpoint ==
    \A t \in Callers :
        /\ Redeemed(t) =>
              /\ wire[t][2].url = federated_token_url(Self(t))
              /\ wire[t][2].authenticated = FALSE
              /\ DOMAIN wire[t][2].headers = {"Authorization"}
              /\ TokenDelivered(t)
              /\ wire[t][2].headers.Authorization = "Bearer " \o OwnToken(t)
              /\ wire[t][2].requests_auth = NotGiven
              /\ wire[t][2].data = NotGiven
        /\ \A k \in 1..Len(wire[t]) :
              (wire[t][k].requests_auth # NotGiven \/ wire[t][k].data # NotGiven) =>
                  /\ k = 1
                  /\ wire[t][k].url = Self(t).access_token_endpoint
                  /\ wire[t][k].url # federated_token_url(Self(t))

\* A call on the password plugin, constructed with alice's password, has sent
\* its second request: the first holds the credentials and the password, the
\* second the bearer header and nothing else.
C18_Witness ==
    /\ target["t1"] = "OidcPassword"
    /\ pc["t1"] = "post2"
    /\ wire["t1"][1].requests_auth = <<"client-pw", "s3cr3t-pw">>
    /\ wire["t1"][1].data.username = "alice"
    /\ wire["t1"][1].data.password = "secret"
    /\ wire["t1"][2] =
           [method |-> "POST",
            url |-> "https://keystone:5000/v3/OS-FEDERATION/identity_providers/idp/protocols/oidc/auth",
            requests_auth |-> NotGiven,
            data |-> NotGiven,
            headers |-> [Authorization |-> "Bearer AT1"],
            authenticated |-> FALSE]

====
